---------------------------- MODULE Spec2Model ----------------------------
(***************************************************************************)
(* filru: a disk backed LRU cache (src/index.js).                          *)
(*                                                                         *)
(* The cache directory is the only store.  Every filesystem call of the    *)
(* program (readFile, writeFile, utimes, unlink, readdir, stat, mkdirp) is  *)
(* asynchronous: the call is issued by one step and its effect on the      *)
(* directory, its callback and the promise reactions that follow the       *)
(* callback in the same turn of the event loop are one later step.         *)
(* Time is the millisecond clock read by new Date() and kept in mtime.     *)
(***************************************************************************)
EXTENDS Integers, Sequences, FiniteSets, TLC

(* ------------------------------ bounds -------------------------------- *)

\* the clock runs from 0 to MaxClock
MaxClock == 2
\* the modification times of the files a sweep on its own starts from
MaxMtime == 3
\* sweeps (calls of run) that can be in progress at once
MaxSweeps == 2

\* cache keys, entry file names and payloads of the model
Keys == {"a", "b"}
Names == {"h1", "h2", "h3"}
Payloads == {<<>>, <<1, 1>>}
SweepPayloads == {<<>>, <<1>>, <<2, 2>>}
\* the client calls (get/set/del/touch/reset) in flight at once
OpIds == {1, 2}
MaxBytesChoices == {1, 2, 3}
MaxAgeChoices == {0, 1}
\* 0 stands for no pruneInterval given
PruneIntervalChoices == {0, 1000}

(* ------------------------------ program -------------------------------- *)

VARIABLES
  history,   \* whether the history variables last and swept are kept
  pruneInterval, \* the pruneInterval option given to the constructor, 0 for none
  dirExists, \* whether the cache directory exists
  fs0,       \* the files of the cache directory at the start (history)
  fs,        \* the files of the cache directory: path -> file
  last,      \* per path, the last completed write or removal (history)
  now,       \* the clock, in ms
  maxBytes,  \* this.maxBytes
  maxAge,    \* this.maxAge
  load,      \* whether this.load is set
  stopped,   \* this.stopped
  timeout,   \* this._timeout: "null", a "live" timer, or a "stale" (fired) one
  orphans,   \* live timers this._timeout no longer refers to
  delay,     \* the delay of the timer runNext set last, 0 before the first
  mkdirp,    \* start() calls whose mkdirp callback has not run yet
  sweeps,    \* the calls of run() in progress
  swept,     \* what the last sweep evaluated and scheduled (history)
  ops        \* the client calls in flight

vars == <<history, pruneInterval, dirExists, fs0, fs, last, now, maxBytes, maxAge, load,
          stopped, timeout, orphans, delay, mkdirp, sweeps, swept, ops>>

PRUNE_INTERVAL_MS == 60000

Dir == "cache"

\* this.dir + "/" + filename
FullPath(filename) == <<Dir, filename>>

Paths == {FullPath(n) : n \in Names}

\* Filru.hash: XXH.h64(key, HASH_SEED).toString(16), a fixed function of the
\* key.  No key of the model hashes to "h3": a file of that name is a file the
\* cache did not write.
HashTable == [a |-> "h1", b |-> "h2"]

hash(key) == HashTable[key]

NoFile == [exists |-> FALSE, data |-> <<>>, mtime |-> 0]

File(data, mtime) == [exists |-> TRUE, data |-> data, mtime |-> mtime]

EmptyDir == [p \in Paths |-> NoFile]

Listing(dir) == {p \in Paths : dir[p].exists}

\* all orders readdir can return the entries in
Orders(S) == {q \in [1..Cardinality(S) -> S] : \A i, j \in DOMAIN q : i # j => q[i] # q[j]}

RECURSIVE SumSizes(_)
SumSizes(stats) ==
  IF stats = <<>> THEN 0 ELSE stats[1].size + SumSizes(Tail(stats))

DirBytes(dir) == LET RECURSIVE Sum(_)
                     Sum(S) == IF S = {} THEN 0
                               ELSE LET p == CHOOSE x \in S : TRUE
                                    IN Len(dir[p].data) + Sum(S \ {p})
                 IN Sum(Listing(dir))

(* --------------------------- the sweep: run() -------------------------- *)

FilruStat(name, time, size) == [name |-> name, time |-> time, size |-> size]

\* doStat on the directory `dir`: a failed stat gives time 0 and size 0
StatIn(dir, fullpath) ==
  IF dir[fullpath].exists
    THEN FilruStat(fullpath, dir[fullpath].mtime, Len(dir[fullpath].data))
    ELSE FilruStat(fullpath, 0, 0)

doStat(fullpath) == StatIn(fs, fullpath)

\* allStats.sort((a, b) => b.time - a.time): stable, newest first
InsertByTime(x, s) ==
  LET k == Cardinality({j \in 1..Len(s) : s[j].time >= x.time})
  IN SubSeq(s, 1, k) \o <<x>> \o SubSeq(s, k + 1, Len(s))

RECURSIVE SortByTimeDesc(_)
SortByTimeDesc(s) ==
  IF s = <<>> THEN <<>>
  ELSE InsertByTime(s[Len(s)], SortByTimeDesc(SubSeq(s, 1, Len(s) - 1)))

\* file.ctime < oldestTime.  A FilruStat has the fields name, time and size:
\* a field it lacks reads undefined, and undefined < date is false.
TooOld(file, oldestTime) ==
  "ctime" \in DOMAIN file /\ file["ctime"] < oldestTime

\* filesSorted.findIndex(f => f.name === name), then splice(ix, 1)
RECURSIVE SpliceName(_, _)
SpliceName(files, name) ==
  IF files = <<>> THEN <<>>
  ELSE IF files[1].name = name THEN Tail(files)
  ELSE <<files[1]>> \o SpliceName(Tail(files), name)

RECURSIVE SpliceNames(_, _)
SpliceNames(files, names) ==
  IF names = <<>> THEN files
  ELSE SpliceNames(SpliceName(files, names[1]), Tail(names))

\* the first loop of run: the names scheduled because of their age
AgePhase(filesSorted, nowMs) ==
  IF maxAge # 0
    THEN LET oldestTime == nowMs - maxAge
             Old(file) == TooOld(file, oldestTime)
             old == SelectSeq(filesSorted, Old)
         IN [i \in 1..Len(old) |-> old[i].name]
    ELSE <<>>

\* the second loop of run: sizeUpTo += file.size; if (sizeUpTo > maxBytes) ...
RECURSIVE SizePhase(_, _)
SizePhase(files, sizeUpTo) ==
  IF files = <<>> THEN <<>>
  ELSE LET upTo == sizeUpTo + files[1].size
       IN (IF upTo > maxBytes THEN <<files[1].name>> ELSE <<>>)
            \o SizePhase(Tail(files), upTo)

\* (mutant) run() unlinks whatever the directory holds when it evaluates
DeletionsOfDirectory(filesSorted, nowMs) ==
  CHOOSE files \in Orders(Listing(fs)) : TRUE

\* the paths run() passes to _unlink, in the order it issues them
Deletions(filesSorted, nowMs) ==
  LET deleteNames == AgePhase(filesSorted, nowMs)
  IN deleteNames \o SizePhase(SpliceNames(filesSorted, deleteNames), 0)

IdleSweep ==
  [pc |-> "idle", paths |-> <<>>, i |-> 0, results |-> <<>>, pending |-> {},
   failed |-> {}, settled |-> FALSE, readdirErr |-> FALSE]

NotSwept ==
  [paths |-> <<>>, allStats |-> <<>>, filesSorted |-> <<>>, nowMs |-> 0,
   deletions |-> <<>>]

SweepIds == 1..MaxSweeps

Free(s) == sweeps[s].pc \in {"idle", "done"}

\* a new call of run takes the first slot that holds no sweep in progress
CanRun(s) == Free(s) /\ \A s2 \in 1..(s - 1) : ~Free(s2)

LiveTimers == orphans + (IF timeout = "live" THEN 1 ELSE 0)

\* (mutant) runNext sets the timer without looking at this.stopped
RunNextAlways ==
  /\ timeout' = "live"
  /\ orphans' = orphans + (IF timeout = "live" THEN 1 ELSE 0)
  /\ delay' = PRUNE_INTERVAL_MS

\* runNext: if (!this.stopped) this._timeout = setTimeout(...)
RunNext ==
  IF ~stopped
    THEN /\ timeout' = "live"
         /\ orphans' = orphans + (IF timeout = "live" THEN 1 ELSE 0)
         /\ delay' = PRUNE_INTERVAL_MS
    ELSE UNCHANGED <<timeout, orphans, delay>>

\* run(): fs.readdir is issued
Run(s) == [IdleSweep EXCEPT !.pc = "readdir"]

\* the then-callback of statAllAndSort: sort, both loops, the unlinks issued,
\* Promise.all(deletions).  With nothing to delete Promise.all resolves at
\* once and runNext runs.
Evaluation(paths, allStats) ==
  LET filesSorted == SortByTimeDesc(allStats)
  IN [paths |-> paths, allStats |-> allStats, filesSorted |-> filesSorted,
      nowMs |-> now, deletions |-> Deletions(filesSorted, now)]

\* a sweep with nothing left to do keeps only how it ended
Ended(sw) ==
  [IdleSweep EXCEPT !.pc = "done", !.failed = sw.failed,
                    !.settled = sw.settled, !.readdirErr = sw.readdirErr]

Evaluated(sw, dels) ==
  IF dels = <<>>
    THEN Ended([sw EXCEPT !.settled = TRUE])
    ELSE [sw EXCEPT !.pc = "unlink", !.i = 0, !.results = <<>>,
                    !.pending = {dels[j] : j \in 1..Len(dels)}]

\* the readdir callback.  On an error the promise of run resolves with it and
\* nothing else happens.  Otherwise statAllAndSort starts: forEachPromise
\* issues doStat on the first path.
ReaddirCb(s) ==
  /\ sweeps[s].pc = "readdir"
  /\ LET err == ~dirExists IN
       IF err
         THEN /\ sweeps' = [sweeps EXCEPT ![s] =
                              Ended([sweeps[s] EXCEPT !.readdirErr = TRUE])]
              /\ UNCHANGED <<timeout, orphans, delay, swept>>
         ELSE \E files \in Orders(Listing(fs)) :
                LET sw == [sweeps[s] EXCEPT !.paths = files]
                IN IF files = <<>>
                     THEN /\ swept' = IF history THEN Evaluation(files, <<>>) ELSE swept
                          /\ sweeps' = [sweeps EXCEPT ![s] = Evaluated(sw, <<>>)]
                          /\ RunNext
                     ELSE /\ sweeps' = [sweeps EXCEPT ![s] =
                                          [sw EXCEPT !.pc = "stat", !.i = 1]]
                          /\ UNCHANGED <<timeout, orphans, delay, swept>>
  /\ UNCHANGED <<history, pruneInterval, dirExists, fs0, fs, last, now, maxBytes, maxAge, load, stopped,
                 mkdirp, ops>>

\* the callback of one fs.stat.  forEachPromise pushes a result when the next
\* item is started; what the last item resolves with is not pushed.
StatCb(s) ==
  /\ sweeps[s].pc = "stat"
  /\ LET sw == sweeps[s]
         stat == doStat(sw.paths[sw.i])
     IN IF sw.i < Len(sw.paths)
          THEN /\ sweeps' = [sweeps EXCEPT ![s] =
                               [sw EXCEPT !.results = Append(sw.results, stat),
                                          !.i = sw.i + 1]]
               /\ UNCHANGED <<timeout, orphans, delay, swept>>
          ELSE LET ev == Evaluation(sw.paths, sw.results)
               IN /\ swept' = IF history THEN ev ELSE swept
                  /\ sweeps' = [sweeps EXCEPT ![s] = Evaluated(sw, ev.deletions)]
                  /\ IF ev.deletions = <<>> THEN RunNext
                     ELSE UNCHANGED <<timeout, orphans, delay>>
  /\ UNCHANGED <<history, pruneInterval, dirExists, fs0, fs, last, now, maxBytes, maxAge, load, stopped,
                 mkdirp, ops>>

Tick ==
  /\ now < MaxClock
  /\ now' = now + 1
  /\ UNCHANGED <<history, pruneInterval, dirExists, fs0, fs, last, maxBytes, maxAge, load, stopped, timeout,
                 orphans, delay, mkdirp, sweeps, swept, ops>>


(* ------------------------- history of each path ------------------------ *)

Unknown == [what |-> "none", data |-> <<>>]

WasSet(contents) == [what |-> "set", data |-> contents]

WasDeleted == [what |-> "del", data |-> <<>>]

Remember(fullpath, what) ==
  IF history THEN [last EXCEPT ![fullpath] = what] ELSE last

\* a writeFile that has opened its file and not written yet
Writing(op, fullpath) ==
  op.kind = "set" /\ op.pc = "write" /\ FullPath(hash(op.key)) = fullpath

\* a reset that has listed the directory and not finished
Resetting(op) == op.kind = "reset" /\ op.pc \in {"readdir", "unlink"}

\* What another step's change of `fullpath` means to the calls in flight: a
\* writeFile or a reset it overlaps is no longer alone, and a writeFile whose
\* file was unlinked writes to a file no name refers to.
Disturbed(me, fullpath, unlinked) ==
  [o \in OpIds |->
     IF o # me /\ (Writing(ops[o], fullpath) \/ Resetting(ops[o]))
       THEN [ops[o] EXCEPT !.alone = FALSE,
               !.linked = @ /\ ~(unlinked /\ Writing(ops[o], fullpath))]
       ELSE ops[o]]

(* ------------------------------ _unlink -------------------------------- *)

\* fs.unlink(fullpath): fails (ENOENT) iff the file is absent
UnlinkOk(fullpath) == fs[fullpath].exists

\* (mutant) the unlink removes every file of the directory
UnlinkedDirectory(fullpath) == IF UnlinkOk(fullpath) THEN EmptyDir ELSE fs

\* (mutant) the unlink reports success and removes nothing
UnlinkedNothing(fullpath) == fs

Unlinked(fullpath) ==
  IF UnlinkOk(fullpath) THEN [fs EXCEPT ![fullpath] = NoFile] ELSE fs

\* (mutant) no catch: runNext runs only when every unlink has resolved
SettlesWhenAllResolve(sw, ok, pending) == ~sw.settled /\ ok /\ pending = {}

\* Promise.all(deletions).then(runNext).catch(err => runNext()): Promise.all
\* rejects on the first rejection and resolves once all have resolved; either
\* way runNext runs, once.
Settles(sw, ok, pending) == ~sw.settled /\ (~ok \/ pending = {})

\* the callback of one fs.unlink issued by run()
UnlinkCb(s) ==
  /\ sweeps[s].pc = "unlink"
  /\ \E fullpath \in sweeps[s].pending :
       LET sw == sweeps[s]
           ok == UnlinkOk(fullpath)
           pending == sw.pending \ {fullpath}
           settles == Settles(sw, ok, pending)
       IN /\ fs' = Unlinked(fullpath)
          /\ last' = IF ok THEN Remember(fullpath, Unknown) ELSE last
          /\ ops' = IF ok THEN Disturbed(0, fullpath, TRUE) ELSE ops
          /\ sweeps' = [sweeps EXCEPT ![s] =
                          LET sw2 == [sw EXCEPT !.pending = pending,
                                        !.failed = IF ok THEN @ ELSE @ \cup {fullpath},
                                        !.settled = @ \/ settles]
                          IN IF pending = {} THEN Ended(sw2) ELSE sw2]
          /\ IF settles THEN RunNext ELSE UNCHANGED <<timeout, orphans, delay>>
  /\ UNCHANGED <<history, pruneInterval, dirExists, fs0, now, maxBytes, maxAge, load, stopped, mkdirp,
                 swept>>

(* --------------------------- start and stop ---------------------------- *)

\* sweeps that will still call runNext
Chains ==
  mkdirp + LiveTimers
    + Cardinality({s \in SweepIds : sweeps[s].pc \in {"readdir", "stat", "unlink"}
                                      /\ ~sweeps[s].settled})

\* start(): this.stopped = false; mkdirp(this.dir, ...) is issued
Start ==
  /\ Chains < MaxSweeps
  /\ stopped' = FALSE
  /\ mkdirp' = mkdirp + 1
  /\ UNCHANGED <<history, pruneInterval, dirExists, fs0, fs, last, now, maxBytes, maxAge, load, timeout,
                 orphans, delay, sweeps, swept, ops>>

\* the mkdirp callback: this.run(); resolve()
MkdirpCb ==
  /\ mkdirp > 0
  /\ \E s \in SweepIds :
       /\ CanRun(s)
       /\ sweeps' = [sweeps EXCEPT ![s] = Run(s)]
  /\ mkdirp' = mkdirp - 1
  /\ dirExists' = TRUE
  /\ UNCHANGED <<history, pruneInterval, fs0, fs, last, now, maxBytes, maxAge, load, stopped, timeout,
                 orphans, delay, swept, ops>>

\* stop(): this.stopped = true; a timer this._timeout refers to is cleared
Stop ==
  /\ stopped' = TRUE
  /\ timeout' = "null"
  /\ UNCHANGED <<history, pruneInterval, dirExists, fs0, fs, last, now, maxBytes, maxAge, load, orphans, delay,
                 mkdirp, sweeps, swept, ops>>

\* a timer set by runNext fires: () => this.run()
TimerFire ==
  /\ \/ /\ timeout = "live"
        /\ timeout' = "stale"
        /\ UNCHANGED orphans
     \/ /\ orphans > 0
        /\ orphans' = orphans - 1
        /\ UNCHANGED timeout
  /\ \E s \in SweepIds :
       /\ CanRun(s)
       /\ sweeps' = [sweeps EXCEPT ![s] = Run(s)]
  /\ UNCHANGED <<history, pruneInterval, dirExists, fs0, fs, last, now, maxBytes, maxAge, load, stopped,
                 delay, mkdirp, swept, ops>>


(* --------------------------- get, set, touch --------------------------- *)

IdleOp ==
  [kind |-> "none", key |-> "a", contents |-> <<>>, pc |-> "idle",
   status |-> "none", value |-> <<>>, err |-> "", tcall |-> 0, newTime |-> 0,
   paths |-> <<>>, i |-> 0, alone |-> TRUE, linked |-> TRUE,
   expect |-> Unknown, touched |-> FALSE, loaded |-> FALSE]

\* a new call takes the first slot that holds no call in flight
NotInFlight(o) == ops[o].pc \in {"idle", "end"}

CanCall(o) == NotInFlight(o) /\ \A o2 \in 1..(o - 1) : ~NotInFlight(o2)

\* a call that has nothing more to do: what it leaves is its outcome
Finished(op) ==
  [op EXCEPT !.pc = "end", !.contents = <<>>, !.tcall = 0, !.newTime = 0,
             !.linked = TRUE]

Call(kind, key, pc) ==
  [IdleOp EXCEPT !.kind = kind, !.key = key, !.pc = pc, !.status = "pending",
                 !.tcall = IF kind = "get" THEN now ELSE 0]

\* (mutant) a clock that runs one tick behind
StaleDate == IF now > 0 THEN now - 1 ELSE now

\* new Date()
NewDate == now

\* touch(key): newTime = new Date(); fs.utimes(fullpath, newTime, newTime, ...)
touch(op) == [op EXCEPT !.pc = "utimes", !.newTime = NewDate]

\* (mutant) get resolves with an empty buffer, whatever was read
GetOutcomeEmpty(op, file) ==
  IF ~file.exists
    THEN IF load
           THEN [Finished(op) EXCEPT !.loaded = TRUE]
           ELSE [Finished(op) EXCEPT !.status = "rejected", !.err = "ENOENT"]
    ELSE [touch(op) EXCEPT !.status = "resolved", !.value = <<>>]

\* what the readFile callback of get does with the outcome of the read
GetOutcome(op, file) ==
  IF ~file.exists
    THEN IF load
           \* return this.load(key): the promise of get is left as it is
           THEN [Finished(op) EXCEPT !.loaded = TRUE]
           ELSE [Finished(op) EXCEPT !.status = "rejected", !.err = "ENOENT"]
    ELSE [touch(op) EXCEPT !.status = "resolved", !.value = file.data]

\* get(key): fs.readFile is issued
Get(o) ==
  /\ CanCall(o)
  /\ \E key \in Keys : ops' = [ops EXCEPT ![o] = Call("get", key, "readFile")]
  /\ UNCHANGED <<history, pruneInterval, dirExists, fs0, fs, last, now, maxBytes, maxAge, load, stopped,
                 timeout, orphans, delay, mkdirp, sweeps, swept>>

ReadFileCb(o) ==
  /\ ops[o].pc = "readFile"
  /\ LET fullpath == FullPath(hash(ops[o].key))
         op == [ops[o] EXCEPT !.expect = last[fullpath]]
     IN ops' = [ops EXCEPT ![o] = GetOutcome(op, fs[fullpath])]
  /\ UNCHANGED <<history, pruneInterval, dirExists, fs0, fs, last, now, maxBytes, maxAge, load, stopped,
                 timeout, orphans, delay, mkdirp, sweeps, swept>>

\* touch(key) called by the client
Touch(o) ==
  /\ CanCall(o)
  /\ \E key \in Keys :
       ops' = [ops EXCEPT ![o] = [touch(Call("touch", key, "utimes"))
                                    EXCEPT !.status = "none"]]
  /\ UNCHANGED <<history, pruneInterval, dirExists, fs0, fs, last, now, maxBytes, maxAge, load, stopped,
                 timeout, orphans, delay, mkdirp, sweeps, swept>>

\* the utimes callback: a failure is only logged
UtimesCb(o) ==
  /\ ops[o].pc = "utimes"
  /\ LET fullpath == FullPath(hash(ops[o].key))
         ok == fs[fullpath].exists
     IN /\ fs' = IF ok THEN [fs EXCEPT ![fullpath].mtime = ops[o].newTime] ELSE fs
        /\ ops' = [ops EXCEPT ![o] = [Finished(@) EXCEPT !.touched = ok]]
  /\ UNCHANGED <<history, pruneInterval, dirExists, fs0, last, now, maxBytes, maxAge, load, stopped, timeout,
                 orphans, delay, mkdirp, sweeps, swept>>

\* set(key, contents): fs.writeFile is issued
Set(o) ==
  /\ CanCall(o)
  /\ \E key \in Keys, contents \in Payloads :
       ops' = [ops EXCEPT ![o] = [Call("set", key, "open")
                                    EXCEPT !.contents = contents]]
  /\ UNCHANGED <<history, pruneInterval, dirExists, fs0, fs, last, now, maxBytes, maxAge, load, stopped,
                 timeout, orphans, delay, mkdirp, sweeps, swept>>

\* writeFile opens the file with flag "w": it is created, or truncated
WriteFileOpen(o) ==
  /\ ops[o].pc = "open"
  /\ LET fullpath == FullPath(hash(ops[o].key))
     IN IF ~dirExists
          THEN /\ ops' = [ops EXCEPT ![o] = [Finished(@) EXCEPT
                                     !.status = "rejected", !.err = "ENOENT"]]
               /\ UNCHANGED <<fs, last>>
          ELSE /\ fs' = [fs EXCEPT ![fullpath] = File(<<>>, now)]
               /\ last' = Remember(fullpath, Unknown)
               /\ ops' = [Disturbed(o, fullpath, FALSE) EXCEPT
                            ![o].pc = "write", ![o].expect = last[fullpath]]
  /\ UNCHANGED <<history, pruneInterval, dirExists, fs0, now, maxBytes, maxAge, load, stopped, timeout,
                 orphans, delay, mkdirp, sweeps, swept>>

\* bytes written at offset 0 over what the file holds
Overlay(contents, old) ==
  contents \o SubSeq(old, Len(contents) + 1, Len(old))

Written(file, contents) ==
  IF contents = <<>> THEN file
  ELSE File(Overlay(contents, file.data), now)

\* writeFile writes the contents, and its callback resolves the promise of set
\* with Buffer.from(contents)
WriteFileCb(o) ==
  /\ ops[o].pc = "write"
  /\ LET fullpath == FullPath(hash(ops[o].key))
         op == ops[o]
         done == [Finished(op) EXCEPT !.status = "resolved",
                                      !.value = op.contents, !.expect = Unknown]
     IN IF op.linked
          THEN /\ fs' = [fs EXCEPT ![fullpath] = Written(fs[fullpath], op.contents)]
               /\ last' = Remember(fullpath, IF op.alone THEN WasSet(op.contents) ELSE Unknown)
               /\ ops' = [Disturbed(o, fullpath, FALSE) EXCEPT ![o] = done]
          ELSE /\ ops' = [ops EXCEPT ![o] = done]
               /\ UNCHANGED <<fs, last>>
  /\ UNCHANGED <<history, pruneInterval, dirExists, fs0, now, maxBytes, maxAge, load, stopped, timeout,
                 orphans, delay, mkdirp, sweeps, swept>>

(* ------------------------------ del, reset ----------------------------- *)

\* del(key): this._unlink(this.dir + "/" + h)
Del(o) ==
  /\ CanCall(o)
  /\ \E key \in Keys : ops' = [ops EXCEPT ![o] = Call("del", key, "unlink")]
  /\ UNCHANGED <<history, pruneInterval, dirExists, fs0, fs, last, now, maxBytes, maxAge, load, stopped,
                 timeout, orphans, delay, mkdirp, sweeps, swept>>

\* the unlink callback of del: reject(err) or resolve(fullpath)
DelCb(o) ==
  /\ ops[o].kind = "del" /\ ops[o].pc = "unlink"
  /\ LET fullpath == FullPath(hash(ops[o].key))
         ok == UnlinkOk(fullpath)
     IN /\ fs' = Unlinked(fullpath)
        /\ last' = IF ok THEN Remember(fullpath, WasDeleted) ELSE last
        /\ ops' = [(IF ok THEN Disturbed(o, fullpath, TRUE) ELSE ops) EXCEPT
                     ![o] = [Finished(@) EXCEPT
                               !.status = IF ok THEN "resolved" ELSE "rejected",
                               !.err = IF ok THEN "" ELSE "ENOENT"]]
  /\ UNCHANGED <<history, pruneInterval, dirExists, fs0, now, maxBytes, maxAge, load, stopped, timeout,
                 orphans, delay, mkdirp, sweeps, swept>>

\* reset(): fs.readdir is issued
Reset(o) ==
  /\ CanCall(o)
  /\ ops' = [ops EXCEPT ![o] = Call("reset", "a", "readdir")]
  /\ UNCHANGED <<history, pruneInterval, dirExists, fs0, fs, last, now, maxBytes, maxAge, load, stopped,
                 timeout, orphans, delay, mkdirp, sweeps, swept>>

\* the readdir callback of reset: resolve(err), or forEachPromise starts the
\* first unlink; with no file listed it resolves at once
ResetReaddirCb(o) ==
  /\ ops[o].kind = "reset" /\ ops[o].pc = "readdir"
  /\ IF ~dirExists
       THEN ops' = [ops EXCEPT ![o] = [Finished(@) EXCEPT
                               !.status = "resolved", !.err = "ENOENT"]]
       ELSE \E files \in Orders(Listing(fs)) :
              ops' = [ops EXCEPT ![o] =
                        IF files = <<>>
                          THEN [Finished(@) EXCEPT !.status = "resolved"]
                          ELSE [@ EXCEPT !.pc = "unlink", !.paths = files, !.i = 1]]
  /\ UNCHANGED <<history, pruneInterval, dirExists, fs0, fs, last, now, maxBytes, maxAge, load, stopped,
                 timeout, orphans, delay, mkdirp, sweeps, swept>>

\* (mutant) the chain resolves after its first item
ResetChainFirstOnly(op, ok) ==
  IF ~ok THEN [Finished(op) EXCEPT !.err = "ENOENT"]
  ELSE [Finished(op) EXCEPT !.status = "resolved"]

\* forEachPromise(fullPaths, this._unlink).then(... resolve()) after the unlink
\* of item op.i: forEachPromise chains the unlinks, so a resolved one starts
\* the next, and after the last one reset resolves.  A rejected one rejects
\* the chain: no later unlink is issued, and nothing handles the rejection, so
\* the promise of reset is left pending.
ResetChain(op, ok) ==
  IF ~ok THEN [Finished(op) EXCEPT !.err = "ENOENT"]
  ELSE IF op.i < Len(op.paths) THEN [op EXCEPT !.i = op.i + 1]
  ELSE [Finished(op) EXCEPT !.status = "resolved"]

\* the callback of one unlink of reset
ResetUnlinkCb(o) ==
  /\ ops[o].kind = "reset" /\ ops[o].pc = "unlink"
  /\ LET op == ops[o]
         fullpath == op.paths[op.i]
         ok == UnlinkOk(fullpath)
         next == ResetChain(op, ok)
     IN /\ fs' = Unlinked(fullpath)
        /\ last' = IF ok THEN Remember(fullpath, Unknown) ELSE last
        /\ ops' = [(IF ok THEN Disturbed(o, fullpath, TRUE) ELSE ops) EXCEPT
                     ![o] = next]
  /\ UNCHANGED <<history, pruneInterval, dirExists, fs0, now, maxBytes, maxAge, load, stopped, timeout,
                 orphans, delay, mkdirp, sweeps, swept>>


(* ------------------------------ environment ---------------------------- *)

\* another process removes the cache directory and everything in it
DirRemoved ==
  /\ dirExists
  /\ dirExists' = FALSE
  /\ fs' = EmptyDir
  /\ last' = [p \in Paths |-> Unknown]
  /\ ops' = [o \in OpIds |->
               IF (ops[o].kind = "set" /\ ops[o].pc = "write") \/ Resetting(ops[o])
                 THEN [ops[o] EXCEPT !.alone = FALSE,
                         !.linked = @ /\ ~(ops[o].kind = "set")]
                 ELSE ops[o]]
  /\ UNCHANGED <<history, pruneInterval, fs0, now, maxBytes, maxAge, load, stopped, timeout, orphans, delay,
                 mkdirp, sweeps, swept>>

(* ----------------------------- specifications -------------------------- *)

\* new Filru({dir, maxBytes, loadFunc, maxAge}): stopped = false, _timeout = null
Constructed ==
  /\ maxBytes \in MaxBytesChoices
  /\ maxAge \in MaxAgeChoices
  /\ stopped = FALSE
  /\ timeout = "null"
  /\ orphans = 0
  /\ delay = 0
  /\ sweeps = [s \in SweepIds |-> IdleSweep]
  /\ ops = [o \in OpIds |-> IdleOp]
  /\ last = [p \in Paths |-> Unknown]
  /\ swept = NotSwept

ClientStep(o) ==
  \/ Get(o) \/ ReadFileCb(o) \/ Touch(o) \/ UtimesCb(o)
  \/ Set(o) \/ WriteFileOpen(o) \/ WriteFileCb(o)
  \/ Del(o) \/ DelCb(o)
  \/ Reset(o) \/ ResetReaddirCb(o) \/ ResetUnlinkCb(o)

SweepStep(s) == ReaddirCb(s) \/ StatCb(s) \/ UnlinkCb(s)

\* the calls that change the directory under a sweep
WriteStep(o) ==
  \/ Set(o) \/ WriteFileOpen(o) \/ WriteFileCb(o)
  \/ Del(o) \/ DelCb(o)

\* The sweeper on a fresh directory: start, stop, the timers and the sweeps,
\* with one client call at a time writing and deleting entries.
Init ==
  /\ Constructed
  /\ maxBytes = 1
  /\ maxAge = 0
  /\ load = FALSE
  /\ pruneInterval = 0
  /\ history = FALSE
  /\ dirExists = FALSE
  /\ fs = EmptyDir
  /\ fs0 = fs
  /\ now = 0
  /\ mkdirp = 0

Next ==
  \/ Start \/ MkdirpCb \/ Stop \/ TimerFire
  \/ \E s \in SweepIds : SweepStep(s)
  \/ WriteStep(1)
  \/ DirRemoved

Spec == Init /\ [][Next]_vars

\* One sweep on its own, over every content of the directory: start() has
\* been called and nothing else runs.
Files == {NoFile} \cup {File(d, t) : d \in SweepPayloads, t \in 1..MaxMtime}

InitSweep ==
  /\ Constructed
  /\ load = FALSE
  /\ pruneInterval \in PruneIntervalChoices
  /\ history = TRUE
  /\ dirExists = TRUE
  /\ fs \in [Paths -> Files]
  /\ fs0 = fs
  /\ now = MaxMtime
  /\ mkdirp = 1

NextSweep == MkdirpCb \/ \E s \in SweepIds : SweepStep(s)

SpecSweep == InitSweep /\ [][NextSweep]_vars

\* The client calls on their own, MaxOps at a time, with no sweeper.
InitStore ==
  /\ Constructed
  /\ maxBytes = 1
  /\ maxAge = 0
  /\ load \in BOOLEAN
  /\ pruneInterval = 0
  /\ history = TRUE
  /\ dirExists = TRUE
  /\ fs = EmptyDir
  /\ fs0 = fs
  /\ now = 0
  /\ mkdirp = 0

NextStore == \E o \in OpIds : ClientStep(o)

SpecStore == InitStore /\ [][NextStore]_vars

\* get, set and touch on their own, with the clock running.
ReadStep(o) ==
  \/ Get(o) \/ ReadFileCb(o) \/ Touch(o) \/ UtimesCb(o)
  \/ Set(o) \/ WriteFileOpen(o) \/ WriteFileCb(o)

InitRead == InitStore /\ load = FALSE

NextRead == Tick \/ \E o \in OpIds : ReadStep(o)

SpecRead == InitRead /\ [][NextRead]_vars

\* One sweep over a directory that holds files already, racing with stop()
\* and with one client call at a time (set, del, touch) made while the sweep
\* is in progress.
RaceFiles == {NoFile, File(<<2, 2>>, 1)}

Sweeping == \E s \in SweepIds : ~Free(s)

RaceStep(o) ==
  \/ (Sweeping /\ (Set(o) \/ Del(o) \/ Touch(o)))
  \/ WriteFileOpen(o) \/ WriteFileCb(o) \/ DelCb(o) \/ UtimesCb(o)

InitRace ==
  /\ Constructed
  /\ maxBytes = 1
  /\ load = FALSE
  /\ pruneInterval = 0
  /\ history = TRUE
  /\ dirExists = TRUE
  /\ fs \in [Paths -> RaceFiles]
  /\ fs0 = fs
  /\ now = MaxMtime
  /\ mkdirp = 1

NextRace == MkdirpCb \/ Stop \/ RaceStep(1) \/ \E s \in SweepIds : SweepStep(s)

SpecRace == InitRace /\ [][NextRace]_vars

\* get, set, touch and del on their own, two at a time, over a directory that
\* holds files already, one of them (h3) under a name no key hashes to.
KeyStep(o) ==
  \/ Get(o) \/ ReadFileCb(o) \/ Touch(o) \/ UtimesCb(o)
  \/ Set(o) \/ WriteFileOpen(o) \/ WriteFileCb(o)
  \/ Del(o) \/ DelCb(o)

InitKeys ==
  /\ Constructed
  /\ maxBytes = 1
  /\ maxAge = 0
  /\ load \in BOOLEAN
  /\ pruneInterval = 0
  /\ history = FALSE
  /\ dirExists = TRUE
  /\ fs \in [Paths -> RaceFiles]
  /\ fs0 = fs
  /\ now = MaxMtime
  /\ mkdirp = 0

NextKeys == \E o \in OpIds : KeyStep(o)

SpecKeys == InitKeys /\ [][NextKeys]_vars

(* ------------------------------- claims -------------------------------- *)

Range(seq) == {seq[i] : i \in DOMAIN seq}

IndexOf(seq, x) == CHOOSE i \in DOMAIN seq : seq[i] = x

SweepEnded == \E s \in SweepIds : sweeps[s].pc = "done" /\ ~sweeps[s].readdirErr

DistinctTimes(dir) ==
  \A p, q \in Listing(dir) : p # q => dir[p].mtime # dir[q].mtime

\* the bytes of e and of every entry at least as new as e
BytesUpTo(dir, e) ==
  DirBytes([p \in Paths |->
              IF dir[p].exists /\ dir[p].mtime >= dir[e].mtime THEN dir[p] ELSE NoFile])

NewestPrefix(dir) == {e \in Listing(dir) : BytesUpTo(dir, e) <= maxBytes}

\* C1: with age eviction disabled and distinct modification times, when a
\* sweep that ran alone has ended, the files left are exactly the entries e
\* whose size plus the sizes of all newer entries is at most maxBytes.
C1_SizeEvictionKeepsNewestPrefix ==
  (SweepEnded /\ maxAge = 0 /\ DistinctTimes(fs0))
    => Listing(fs) = NewestPrefix(fs0)

\* C2: when a sweep that ran alone has ended, the files left in the directory
\* hold at most maxBytes bytes in total.
C2_ByteBudgetAfterSweep == SweepEnded => DirBytes(fs) <= maxBytes

\* C3: with maxAge > 0, every entry a sweep evaluates whose modification time
\* is older than now - maxAge is scheduled for deletion, and is gone once the
\* sweep has ended, whatever the size of the cache.
C3_AgeEviction ==
  maxAge > 0 =>
    \A i \in DOMAIN swept.allStats :
      swept.allStats[i].time < swept.nowMs - maxAge =>
        /\ swept.allStats[i].name \in Range(swept.deletions)
        /\ SweepEnded => ~fs[swept.allStats[i].name].exists

\* C4: a get that reads an entry after a set of it has resolved, with no other
\* write or removal of the entry since that set began, resolves with exactly
\* the contents set.
C4_RoundTrip ==
  \A o \in OpIds :
    (ops[o].kind = "get" /\ ops[o].expect.what = "set")
      => (ops[o].status = "resolved" /\ ops[o].value = ops[o].expect.data)

C4_Witness ==
  \E o1, o2 \in OpIds :
    /\ ops[o1].kind = "get" /\ ops[o1].expect = WasSet(<<1, 1>>)
    /\ ops[o1].value = <<1, 1>>
    /\ ops[o2].kind = "get" /\ ops[o2].expect = WasSet(<<>>)
    /\ ops[o2].status = "resolved"

\* C5: a get that missed and called the load function settles: its promise
\* does not stay pending once nothing more can happen to it.
C5_LoadOnMissSettles ==
  \A o \in OpIds :
    (ops[o].kind = "get" /\ ops[o].loaded) => ops[o].status # "pending"

PathOf(op) == FullPath(hash(op.key))

DelEnds(o) == ops[o].kind = "del" /\ ops[o].pc = "unlink" /\ ops'[o].pc = "end"

GetReads(o) == ops[o].kind = "get" /\ ops[o].pc = "readFile" /\ ops'[o].pc # "readFile"

\* C6: del of an absent entry rejects with ENOENT and changes no file; del of
\* an entry that exists resolves and removes it and nothing else; and a get
\* that reads the entry after that, with no write of it in between and no load
\* function, rejects with ENOENT.
C6_Delete ==
  [][\A o \in OpIds :
       /\ (DelEnds(o) /\ ~fs[PathOf(ops[o])].exists)
            => (ops'[o].status = "rejected" /\ ops'[o].err = "ENOENT" /\ fs' = fs)
       /\ (DelEnds(o) /\ fs[PathOf(ops[o])].exists)
            => /\ ops'[o].status = "resolved"
               /\ fs' = [fs EXCEPT ![PathOf(ops[o])] = NoFile]
       /\ (GetReads(o) /\ last[PathOf(ops[o])] = WasDeleted /\ ~load)
            => (ops'[o].status = "rejected" /\ ops'[o].err = "ENOENT")
    ]_vars

C6_Witness ==
  \E o1, o2 \in OpIds :
    /\ ops[o1].kind = "get" /\ ops[o1].expect = WasDeleted
    /\ ops[o1].status = "rejected"
    /\ ops[o2].kind = "del" /\ ops[o2].status = "rejected"

ResetEnds(o) ==
  ops[o].kind = "reset" /\ ops[o].pc \in {"readdir", "unlink"} /\ ops'[o].pc = "end"

\* C7: when a reset during which no other call changed the directory ends,
\* its promise is resolved and the directory holds no entry.
C7_ResetEmpties ==
  [][\A o \in OpIds :
       (ResetEnds(o) /\ ops'[o].alone)
         => (ops'[o].status = "resolved" /\ Listing(fs') = {})
    ]_vars

C7_Witness ==
  \E o \in OpIds :
    /\ ops[o].kind = "reset" /\ ops[o].pc = "end" /\ ops[o].alone
    /\ Len(ops[o].paths) = 2 /\ ops[o].status = "resolved"
    /\ Listing(fs) = {}

\* C8: a reset one of whose unlinks failed still attempts the unlink of every
\* listed file and ends resolved.
C8_ResetToleratesFailedDeletes ==
  \A o \in OpIds :
    (ops[o].kind = "reset" /\ ops[o].pc = "end")
      => (ops[o].status = "resolved" /\ ops[o].i = Len(ops[o].paths))

\* C9: while stop() is the last of start() and stop() to have been called, no
\* sweep starts (no call of run issues its readdir).
C9_StopHaltsSweeping ==
  [][stopped =>
       \A s \in SweepIds :
         sweeps'[s].pc = "readdir" => sweeps[s].pc = "readdir"
    ]_vars

TouchEnds(o) == ops[o].kind = "get" /\ ops[o].pc = "utimes" /\ ops'[o].pc = "end"

\* statAllAndSort puts p before q, whatever order readdir lists them in
SortsNewer(dir, p, q) ==
  \A files \in Orders(Listing(dir)) :
    LET filesSorted == SortByTimeDesc([i \in DOMAIN files |-> StatIn(dir, files[i])])
        names == [i \in DOMAIN filesSorted |-> filesSorted[i].name]
    IN IndexOf(names, p) < IndexOf(names, q)

ReaddirFails(s) ==
  sweeps[s].pc = "readdir" /\ sweeps'[s].pc = "done" /\ sweeps'[s].readdirErr

\* the step sets a timer: one more timer is live, and this._timeout is one
TimerSet ==
  /\ timeout' = "live"
  /\ orphans' = orphans + (IF timeout = "live" THEN 1 ELSE 0)

\* C11: when the readdir of a sweep fails, the sweep removes no file and, if
\* the cache is not stopped, it sets the timer of the next sweep.
C11_ListingFailureReschedules ==
  [][\A s \in SweepIds :
       ReaddirFails(s) => (fs' = fs /\ (~stopped => TimerSet))
    ]_vars

\* C13: at most one sweep is in progress at a time, and a sweep sets the timer
\* of the next one only when none of its unlinks is outstanding.
C13_SweepsNeverOverlap ==
  [][/\ Cardinality({s \in SweepIds : sweeps'[s].pc \notin {"idle", "done"}}) <= 1
     /\ \A s \in SweepIds :
          (~sweeps[s].settled /\ sweeps'[s].settled /\ TimerSet)
            => sweeps'[s].pending = {}
    ]_vars

\* C14: a get that reads an entry while a set is overwriting it (the set has
\* opened the file and not written yet, and nothing else touches the entry)
\* resolves with the contents the entry held before the set or with the
\* contents being set.
C14_NoTornWrites ==
  [][\A o, w \in OpIds :
       (/\ GetReads(o)
        /\ Writing(ops[w], PathOf(ops[o]))
        /\ ops[w].expect.what = "set" /\ ops[w].alone /\ ops[w].linked)
         => /\ ops'[o].status = "resolved"
            /\ ops'[o].value \in {ops[w].expect.data, ops[w].contents}
    ]_vars

\* "defaults to 1 hour"
HourMs == 3600000

\* C15: once a sweep has completed with the cache not stopped, the timer it
\* set has the pruneInterval given to the constructor as its delay, or one
\* hour when none was given.
C15_SweepPeriod ==
  (~stopped /\ \E s \in SweepIds : sweeps[s].pc = "done" /\ sweeps[s].settled)
    => delay = (IF pruneInterval # 0 THEN pruneInterval ELSE HourMs)

\* a step of the sweep s that is the callback of one of its unlinks
UnlinkStep(s) == sweeps[s].pc = "unlink" /\ sweeps'[s] # sweeps[s]

\* the paths whose unlink the step completes
Completed(s) == sweeps[s].pending \ sweeps'[s].pending

\* C12: when an unlink issued by a sweep fails, the other unlinks of the sweep
\* stay outstanding and each still removes its file when it completes; the
\* sweep ends normally, and at its first failed unlink, or else at its last
\* unlink, it sets the timer of the next sweep if the cache is not stopped.
C12_DeleteFailureNotFatal ==
  [][\A s \in SweepIds :
       UnlinkStep(s) =>
         LET failure == \E p \in Completed(s) : ~fs[p].exists
         IN /\ Cardinality(Completed(s)) = 1
            /\ \A p \in Completed(s) : ~fs'[p].exists
            /\ \A p \in Paths \ Completed(s) : fs'[p] = fs[p]
            /\ (~sweeps[s].settled /\ (failure \/ sweeps'[s].pending = {}) /\ ~stopped)
                 => TimerSet
            /\ sweeps'[s].pc = "done" => sweeps'[s].settled
    ]_vars

C12_Witness ==
  \E s \in SweepIds :
    /\ sweeps[s].pc = "done" /\ sweeps[s].failed # {} /\ sweeps[s].settled
    /\ ~stopped /\ timeout = "live"
    /\ Len(swept.deletions) = 2
    /\ fs0[swept.deletions[1]].exists /\ fs0[swept.deletions[2]].exists
    /\ Range(swept.deletions) \ sweeps[s].failed # {}
    /\ Listing(fs) \cap Range(swept.deletions) = {}

\* C16: a sweep in progress when the cache is stopped goes on: stop() leaves
\* the sweep as it is, every path the sweep schedules has its unlink issued,
\* each unlink still removes its file, and no step sets a timer while the
\* cache is stopped.
C16_StopKeepsSweepInFlight ==
  [][/\ (~stopped /\ stopped') => sweeps' = sweeps
     /\ stopped => ~TimerSet
     /\ \A s \in SweepIds :
          /\ (stopped /\ sweeps[s].pc = "stat" /\ sweeps'[s].pc = "unlink")
               => sweeps'[s].pending = Range(swept'.deletions)
          /\ (stopped /\ UnlinkStep(s))
               => \A p \in Completed(s) : ~fs'[p].exists
    ]_vars

C16_Witness ==
  \E s \in SweepIds :
    /\ stopped /\ timeout = "null"
    /\ sweeps[s].pc = "unlink" /\ sweeps[s].pending # {}
    /\ \E q \in Range(swept.deletions) \ sweeps[s].pending :
         fs0[q].exists /\ ~fs[q].exists /\ q \notin sweeps[s].failed

\* C17: the list a sweep evaluates has exactly one record for every path of
\* its listing, newest first.
C17_CompleteSnapshot ==
  LET files == swept.filesSorted
      names == [i \in DOMAIN files |-> files[i].name]
  IN /\ Len(files) = Len(swept.paths)
     /\ Range(names) = Range(swept.paths)
     /\ \A i, j \in DOMAIN files : i < j => files[i].time >= files[j].time

\* C18: in a sweep one of whose stats failed, every listed path has a record
\* in the list the sweep evaluates, and a record of a failed stat has size 0
\* and comes after every record with a real modification time.
C18_StatFailureAbsorbed ==
  LET files == swept.filesSorted
  IN (\E i \in DOMAIN files : files[i].time = 0) =>
       /\ \A p \in Range(swept.paths) : \E i \in DOMAIN files : files[i].name = p
       /\ \A i, j \in DOMAIN files :
            (files[i].time = 0 /\ files[j].time > 0) => j < i
       /\ \A i \in DOMAIN files : files[i].time = 0 => files[i].size = 0

\* C19: with maxAge > 0, every record of a failed stat (time 0) that a sweep
\* evaluates is scheduled for deletion.
C19_FailedStatScheduled ==
  maxAge > 0 =>
    \A i \in DOMAIN swept.allStats :
      swept.allStats[i].time = 0
        => swept.allStats[i].name \in Range(swept.deletions)

\* C20: every path a sweep has an unlink outstanding for is in the listing of
\* that sweep, and an unlink of a sweep removes no file outside that listing.
C20_DeletesOnlyListed ==
  [][\A s \in SweepIds :
       /\ sweeps'[s].pending \subseteq Range(sweeps'[s].paths)
       /\ UnlinkStep(s) =>
            \A p \in Paths :
              (fs[p].exists /\ ~fs'[p].exists) => p \in Range(sweeps[s].paths)
    ]_vars

C20_Witness ==
  \E s \in SweepIds :
    /\ sweeps[s].pc = "done" /\ swept.deletions # <<>>
    /\ \A q \in Range(swept.deletions) : ~fs[q].exists
    /\ \E p \in Paths \ Range(swept.paths) : fs[p].exists /\ last[p].what = "set"

\* the step is the call, or a callback, of the client call in slot o
Acts(o) == ops'[o].pc # ops[o].pc

\* the call the step belongs to
Acting(o) == IF NotInFlight(o) THEN ops'[o] ELSE ops[o]

\* C21: a step of get(k), set(k, v), touch(k) or del(k) leaves the file under
\* every name other than hash(k) as it is, and a step of touch(k) or get(k)
\* creates no file.
C21_PerKeyLocal ==
  [][\A o \in OpIds :
       (Acts(o) /\ Acting(o).kind \in {"get", "set", "touch", "del"})
         => /\ \A p \in Paths \ {PathOf(Acting(o))} : fs'[p] = fs[p]
            /\ Acting(o).kind \in {"get", "touch"}
                 => Listing(fs') \subseteq Listing(fs)
    ]_vars

C21_Witness ==
  \E o \in OpIds :
    /\ ops[o].kind = "touch" /\ ops[o].pc = "end" /\ ~ops[o].touched
    /\ fs0[PathOf(ops[o])].exists /\ ~fs[PathOf(ops[o])].exists
    /\ \E p \in Paths \ {PathOf(ops[o])} :
         /\ fs[p].exists /\ fs[p].mtime = MaxMtime /\ fs[p].data = <<1, 1>>
         /\ \A q \in Paths \ {p, PathOf(ops[o])} : fs0[q].exists /\ fs[q] = fs0[q]

=============================================================================
